---- MODULE Spec2Model ----
\* The handshake core of snow (src/src/handshakestate.rs): two HandshakeState
\* objects, an initiator and a responder, driven by an application that may
\* call new, write_handshake_message, read_handshake_message and finish in any
\* order and with any buffers.  Byte strings are symbolic terms with explicit
\* lengths; hashing, key derivation, AEAD and DH are free constructors (DH is
\* commutative in the two key pairs).
EXTENDS Integers, Sequences, FiniteSets, TLC

\* ------------------------------------------------------------------ bounds
\* Number of calls the application makes once the exchange has left the
\* pattern's order (a write or read failed, was out of turn, or read bytes
\* the peer did not just write, or finish was called too early).
MaxStray == 2
\* Number of times one handshake state asks its rng for a fresh ephemeral.
MaxGen == 2

\* ------------------------------------------------------- program constants
TAGLEN == 16
MAXMSGLEN == 65535
\* pub_len() of the Dh capability both key objects are built from (25519).
DHLEN == 32

Parties == {"I", "R"}
Peer(p) == IF p = "I" THEN "R" ELSE "I"

\* ------------------------------------------------------------------- terms
\* A byte string is a term [op, args]; every term has the same shape so that
\* any two of them can be compared.
Atom(name) == [op |-> name, args |-> <<>>]
Term(name, as) == [op |-> name, args |-> as]
Empty == Atom("empty")
Zero == Atom("zero")
Junk == Atom("junk")
NoKey == Atom("nokey")
Num(n) == Atom(ToString(n))

\* Key pairs are numbered: 1 and 2 are the static keys of I and R, 10+g and
\* 20+g the g-th ephemeral of I and R (g = 0 is a fixed ephemeral), 0 is a
\* Dh object whose key was never set.
StaticKey(p) == IF p = "I" THEN 1 ELSE 2
EphKey(p, g) == (IF p = "I" THEN 10 ELSE 20) + g
KeyIds == {0, 1, 2} \cup {EphKey(p, g) : p \in Parties, g \in 0..(MaxGen + 1)}
Pub(k) == Term("pub", <<Num(k)>>)
IsPub(t) == \E k \in KeyIds : t = Pub(k)
KeyOf(t) == CHOOSE k \in KeyIds : t = Pub(k)

\* Dh::dh(remote_pub, out): the shared secret of key pair k and public key t.
DhOut(k, t) ==
    IF IsPub(t)
    THEN LET j == KeyOf(t) IN
         Term("dh", <<Num(IF k < j THEN k ELSE j), Num(IF k < j THEN j ELSE k)>>)
    ELSE Term("dhx", <<Num(k), t>>)

\* Whether Dh::dh reports success for the remote public key t: it fails on
\* bytes that are not the public key of a key pair (an invalid point).
DhValid(t) == IsPub(t)

\* ---------------------------------------------------------- SymmetricState
SymInitialize(name) ==
    [ck |-> Term("init", name), h |-> Term("init", name),
     has_key |-> FALSE, k |-> NoKey, n |-> 0]

MixKey(ss, input) ==
    [ss EXCEPT !.ck = Term("hkdf2_1", <<ss.ck, input>>),
               !.k = Term("hkdf2_2", <<ss.ck, input>>),
               !.has_key = TRUE, !.n = 0]

MixHash(ss, data) == [ss EXCEPT !.h = Term("hash", <<ss.h, data>>)]

MixKeyAndHash(ss, input) ==
    LET temp_h == Term("hkdf3_2", <<ss.ck, input>>)
        keyed == [ss EXCEPT !.ck = Term("hkdf3_1", <<ss.ck, input>>),
                            !.k = Term("hkdf3_3", <<ss.ck, input>>),
                            !.has_key = TRUE, !.n = 0]
    IN MixHash(keyed, temp_h)

\* Cipher::encrypt(nonce, ad, plaintext): ciphertext || tag.
Enc(k, n, ad, pt) == Term("enc", <<k, Num(n), ad, pt>>)

\* encrypt_and_mix_hash: [ss, ct, len] for a plaintext term of length ptlen.
EncryptAndMixHash(ss, pt, ptlen) ==
    IF ss.has_key
    THEN LET ct == Enc(ss.k, ss.n, ss.h, pt) IN
         [ss |-> [MixHash(ss, ct) EXCEPT !.n = ss.n + 1], ct |-> ct,
          len |-> ptlen + TAGLEN]
    ELSE [ss |-> MixHash(ss, pt), ct |-> pt, len |-> ptlen]

\* Cipher::decrypt verifies the tag: the input must be the encryption, under
\* this key, nonce and associated data, of some plaintext.
TagOk(ss, data) ==
    /\ data.op = "enc"
    /\ data.args[1] = ss.k
    /\ data.args[2] = Num(ss.n)
    /\ data.args[3] = ss.h

\* decrypt_and_mix_hash on data of length len: [ss, ok, pt].  shortct is the
\* outcome of handing a keyed cipher fewer than TAGLEN bytes.
DecryptAndMixHash(ss, data, len, shortct) ==
    IF ss.has_key
    THEN IF len < TAGLEN
         THEN [ss |-> ss, res |-> shortct, pt |-> Junk]
         ELSE IF TagOk(ss, data)
              THEN [ss |-> [MixHash(ss, data) EXCEPT !.n = ss.n + 1],
                    res |-> "ok", pt |-> data.args[4]]
              ELSE [ss |-> ss, res |-> "Decrypt", pt |-> Junk]
    ELSE [ss |-> MixHash(ss, data), res |-> "ok", pt |-> data]

\* split: the two transport keys.
SplitKeys(ss) ==
    [c1 |-> Term("hkdf2_1", <<ss.ck, Empty>>),
     c2 |-> Term("hkdf2_2", <<ss.ck, Empty>>)]

\* --------------------------------------------------------- pattern catalog
\* Tokens: "E", "S", "Dhee", "Dhes", "Dhse", "Dhss" and "Psk0".."Psk3".
PskTokens == <<"Psk0", "Psk1", "Psk2", "Psk3">>
PskToken(n) == PskTokens[n + 1]
IsPskToken(tok) == \E n \in 0..3 : tok = PskToken(n)
PskIndex(tok) == CHOOSE n \in 0..3 : tok = PskToken(n)

BasePatterns ==
    {"N", "K", "X", "NN", "NK", "NX", "XN", "XK", "XX",
     "KN", "KK", "KX", "IN", "IK", "IX"}

\* The premessage sequences and message patterns of a base pattern.
BaseTokens(pattern) ==
    CASE pattern = "N" ->
           [premsg_pattern_i |-> <<>>, premsg_pattern_r |-> <<"S">>,
            msg_patterns |-> << <<"E", "Dhes">> >>]
      [] pattern = "K" ->
           [premsg_pattern_i |-> <<"S">>, premsg_pattern_r |-> <<"S">>,
            msg_patterns |-> << <<"E", "Dhes", "Dhss">> >>]
      [] pattern = "X" ->
           [premsg_pattern_i |-> <<>>, premsg_pattern_r |-> <<"S">>,
            msg_patterns |-> << <<"E", "Dhes", "S", "Dhss">> >>]
      [] pattern = "NN" ->
           [premsg_pattern_i |-> <<>>, premsg_pattern_r |-> <<>>,
            msg_patterns |-> << <<"E">>, <<"E", "Dhee">> >>]
      [] pattern = "NK" ->
           [premsg_pattern_i |-> <<>>, premsg_pattern_r |-> <<"S">>,
            msg_patterns |-> << <<"E", "Dhes">>, <<"E", "Dhee">> >>]
      [] pattern = "NX" ->
           [premsg_pattern_i |-> <<>>, premsg_pattern_r |-> <<>>,
            msg_patterns |-> << <<"E">>, <<"E", "Dhee", "S", "Dhes">> >>]
      [] pattern = "XN" ->
           [premsg_pattern_i |-> <<>>, premsg_pattern_r |-> <<>>,
            msg_patterns |-> << <<"E">>, <<"E", "Dhee">>, <<"S", "Dhse">> >>]
      [] pattern = "XK" ->
           [premsg_pattern_i |-> <<>>, premsg_pattern_r |-> <<"S">>,
            msg_patterns |->
                << <<"E", "Dhes">>, <<"E", "Dhee">>, <<"S", "Dhse">> >>]
      [] pattern = "XX" ->
           [premsg_pattern_i |-> <<>>, premsg_pattern_r |-> <<>>,
            msg_patterns |->
                << <<"E">>, <<"E", "Dhee", "S", "Dhes">>, <<"S", "Dhse">> >>]
      [] pattern = "KN" ->
           [premsg_pattern_i |-> <<"S">>, premsg_pattern_r |-> <<>>,
            msg_patterns |-> << <<"E">>, <<"E", "Dhee", "Dhse">> >>]
      [] pattern = "KK" ->
           [premsg_pattern_i |-> <<"S">>, premsg_pattern_r |-> <<"S">>,
            msg_patterns |->
                << <<"E", "Dhes", "Dhss">>, <<"E", "Dhee", "Dhse">> >>]
      [] pattern = "KX" ->
           [premsg_pattern_i |-> <<"S">>, premsg_pattern_r |-> <<>>,
            msg_patterns |->
                << <<"E">>, <<"E", "Dhee", "Dhse", "S", "Dhes">> >>]
      [] pattern = "IN" ->
           [premsg_pattern_i |-> <<>>, premsg_pattern_r |-> <<>>,
            msg_patterns |-> << <<"E", "S">>, <<"E", "Dhee", "Dhse">> >>]
      [] pattern = "IK" ->
           [premsg_pattern_i |-> <<>>, premsg_pattern_r |-> <<"S">>,
            msg_patterns |->
                << <<"E", "Dhes", "S", "Dhss">>, <<"E", "Dhee", "Dhse">> >>]
      [] pattern = "IX" ->
           [premsg_pattern_i |-> <<>>, premsg_pattern_r |-> <<>>,
            msg_patterns |->
                << <<"E", "S">>, <<"E", "Dhee", "Dhse", "S", "Dhes">> >>]

\* One psk modifier applied to the message patterns: psk0 goes to the front
\* of the first message, pskN (N > 0) to the end of message N.
ApplyPsk(msgs, n) ==
    IF n = 0
    THEN [msgs EXCEPT ![1] = <<PskToken(0)>> \o msgs[1]]
    ELSE [msgs EXCEPT ![n] = Append(msgs[n], PskToken(n))]

RECURSIVE ApplyModifiers(_, _)
ApplyModifiers(msgs, mods) ==
    IF mods = <<>> THEN msgs
    ELSE ApplyModifiers(ApplyPsk(msgs, Head(mods)), Tail(mods))

\* A handshake choice is [pattern, modifiers], modifiers a sequence of psk
\* positions.  HandshakeTokens::try_from.
HandshakeTokens(handshake) ==
    LET base == BaseTokens(handshake.pattern) IN
    [base EXCEPT !.msg_patterns = ApplyModifiers(@, handshake.modifiers)]

IsPsk(handshake) == handshake.modifiers # <<>>

\* ---------------------------------------------------- HandshakeState::new
\* Capacity of the rs and re buffers, and the names the protocol name is
\* assembled from.
MAXDHLEN == 56
DhName == "25519"
CipherName == "ChaChaPoly"
HashName == "BLAKE2s"

PskValue(n) == Term("psk", <<Num(n)>>)
Prologue == Atom("prologue")

\* The key material handed to new for party p: cfg is the set of slots that
\* are enabled ("s", "e", "rs", "re") plus "psk" when the psks are present.
\* A fixed ephemeral is the one e that can be on at construction.
Material(p, cfg) ==
    [s_on |-> "s" \in cfg,
     s |-> IF "s" \in cfg THEN StaticKey(p) ELSE 0,
     e_on |-> "e" \in cfg,
     e |-> IF "e" \in cfg THEN EphKey(p, 0) ELSE 0,
     fixed_ephemeral |-> "e" \in cfg,
     rs_on |-> "rs" \in cfg,
     rs |-> IF "rs" \in cfg THEN Pub(StaticKey(Peer(p))) ELSE Zero,
     re_on |-> "re" \in cfg,
     re |-> IF "re" \in cfg THEN Pub(EphKey(Peer(p), 0)) ELSE Zero,
     psks |-> [n \in 0..3 |-> IF "psk" \in cfg THEN PskValue(n) ELSE NoKey]]

\* The key length check at the top of new.
KeyLengthsBad(m, s_pub_len, e_pub_len, rs_len, re_len) ==
    \/ (m.s_on /\ m.e_on /\ s_pub_len # e_pub_len)
    \/ (m.s_on /\ m.rs_on /\ s_pub_len > rs_len)
    \/ (m.s_on /\ m.re_on /\ s_pub_len > re_len)

\* The protocol name handed to SymmetricState::initialize.
HandshakeName(handshake) ==
    <<Atom("Noise_"), Atom(handshake.pattern), Atom("_"), Atom(DhName),
      Atom("_"), Atom(CipherName), Atom("_"), Atom(HashName)>>

\* One premessage token; c is [ss, res], own says whether the premessage is
\* this party's (its s/e) or the peer's (rs/re).
PremsgToken(c, m, tok, own) ==
    IF c.res # "ok" THEN c
    ELSE IF tok = "S"
    THEN IF own
         THEN IF m.s_on THEN [c EXCEPT !.ss = MixHash(@, Pub(m.s))]
              ELSE [c EXCEPT !.res = "Panic"]
         ELSE IF m.rs_on THEN [c EXCEPT !.ss = MixHash(@, m.rs)]
              ELSE [c EXCEPT !.res = "Panic"]
    ELSE IF tok = "E"
    THEN IF own
         THEN IF m.e_on THEN [c EXCEPT !.ss = MixHash(@, Pub(m.e))]
              ELSE [c EXCEPT !.res = "Panic"]
         ELSE IF m.re_on THEN [c EXCEPT !.ss = MixHash(@, m.re)]
              ELSE [c EXCEPT !.res = "Panic"]
    ELSE [c EXCEPT !.res = "Panic"]

RECURSIVE PremsgTokens(_, _, _, _)
PremsgTokens(c, m, toks, own) ==
    IF toks = <<>> THEN c
    ELSE PremsgTokens(PremsgToken(c, m, Head(toks), own), m, Tail(toks), own)

\* The cipher states handed to new are empty.
EmptyCipherStates == [c1 |-> NoKey, c2 |-> NoKey]

\* HandshakeState::new: [res, hs].
HandshakeStateNew(p, m, initiator, handshake) ==
    LET tokens == HandshakeTokens(handshake)
        ss0 == MixHash(SymInitialize(HandshakeName(handshake)), Prologue)
        c1 == PremsgTokens([ss |-> ss0, res |-> "ok"], m,
                           tokens.premsg_pattern_i, initiator)
        c2 == PremsgTokens(c1, m, tokens.premsg_pattern_r, ~initiator)
        hs == [who |-> p, status |-> "live", gen |-> 0,
               symmetricstate |-> c2.ss, cipherstates |-> EmptyCipherStates,
               s_on |-> m.s_on, s |-> m.s, e_on |-> m.e_on, e |-> m.e,
               fixed_ephemeral |-> m.fixed_ephemeral,
               rs_on |-> m.rs_on, rs |-> m.rs, re_on |-> m.re_on, re |-> m.re,
               initiator |-> initiator, handshake |-> handshake,
               psks |-> m.psks, my_turn |-> initiator,
               message_patterns |-> tokens.msg_patterns,
               nsplit |-> 0]
    IN IF KeyLengthsBad(m, DHLEN, DHLEN, MAXDHLEN, MAXDHLEN)
       THEN [res |-> "Prereq", hs |-> hs]
       ELSE [res |-> c2.res, hs |-> hs]

\* -------------------------------------------------------- HandshakeState
\* pub_len() of the s and of the e key object.
s_pub_len == DHLEN
e_pub_len == DHLEN
dh_len == s_pub_len

\* Which key pair a DH token selects, as (local_s, remote_s): TRUE for the
\* static slot, FALSE for the ephemeral one.
WriteDhArgs(tok) ==
    CASE tok = "Dhee" -> <<FALSE, FALSE>>
      [] tok = "Dhes" -> <<FALSE, TRUE>>
      [] tok = "Dhse" -> <<TRUE, FALSE>>
      [] tok = "Dhss" -> <<TRUE, TRUE>>

ReadDhArgs(tok) ==
    CASE tok = "Dhee" -> <<FALSE, FALSE>>
      [] tok = "Dhes" -> <<TRUE, FALSE>>
      [] tok = "Dhse" -> <<FALSE, TRUE>>
      [] tok = "Dhss" -> <<TRUE, TRUE>>

DhNoCheck(c, tok, local_s, remote_s) ==
    LET hs == c.hs
        dh_out == DhOut(IF local_s THEN hs.s ELSE hs.e,
                        IF remote_s THEN hs.rs ELSE hs.re)
    IN [c EXCEPT !.hs.symmetricstate = MixKey(@, dh_out),
                 !.dh = Append(@, [tok |-> tok, local_s |-> local_s,
                                   remote_s |-> remote_s,
                                   valid |-> DhValid(IF remote_s THEN hs.rs
                                                     ELSE hs.re)])]

\* HandshakeState::dh on the context c of a running write or read; c.dh logs
\* the DH computations the operation performs and passes to mix_key, with
\* what the capability reported for them.
Dh(c, tok, local_s, remote_s) ==
    LET hs == c.hs IN
    IF ~( (~local_s \/ hs.s_on) /\ (local_s \/ hs.e_on)
          /\ (~remote_s \/ hs.rs_on) /\ (remote_s \/ hs.re_on) )
    THEN [c EXCEPT !.res = "State"]
    ELSE LET dh_out == DhOut(IF local_s THEN hs.s ELSE hs.e,
                             IF remote_s THEN hs.rs ELSE hs.re)
         IN [c EXCEPT !.hs.symmetricstate = MixKey(@, dh_out),
                      !.dh = Append(@, [tok |-> tok, local_s |-> local_s,
                                        remote_s |-> remote_s,
                                        valid |-> DhValid(IF remote_s
                                                          THEN hs.rs
                                                          ELSE hs.re)])]

PskArmNoCheck(c, n) ==
    [c EXCEPT !.hs.symmetricstate = MixKeyAndHash(@, c.hs.psks[n])]

\* The Psk(n) arm, the same in write and read.
PskArm(c, n) ==
    IF c.hs.psks[n] # NoKey
    THEN [c EXCEPT !.hs.symmetricstate = MixKeyAndHash(@, c.hs.psks[n])]
    ELSE [c EXCEPT !.res = "State"]

\* ----- write_handshake_message
WriteE(c, buflen) ==
    LET hs == c.hs IN
    IF c.bi + e_pub_len > buflen THEN [c EXCEPT !.res = "Input"]
    ELSE LET e1 == IF hs.fixed_ephemeral THEN hs.e
                   ELSE EphKey(hs.who, hs.gen + 1)
             pubkey == Pub(e1)
             ss1 == MixHash(hs.symmetricstate, pubkey)
             ss2 == IF IsPsk(hs.handshake) THEN MixKey(ss1, pubkey) ELSE ss1
         IN [c EXCEPT !.hs = [hs EXCEPT !.e = e1, !.e_on = TRUE,
                                  !.gen = IF hs.fixed_ephemeral THEN @ ELSE @ + 1,
                                  !.symmetricstate = ss2],
                      !.bi = @ + s_pub_len,
                      !.out = Append(@, [len |-> e_pub_len, val |-> pubkey])]

WriteS(c, buflen) ==
    LET hs == c.hs IN
    IF ~hs.s_on THEN [c EXCEPT !.res = "State"]
    ELSE IF c.bi + s_pub_len > buflen THEN [c EXCEPT !.res = "Input"]
    ELSE LET r == EncryptAndMixHash(hs.symmetricstate, Pub(hs.s), s_pub_len)
         IN IF r.len > buflen - c.bi
            THEN [c EXCEPT !.res = "Panic"]
            ELSE [c EXCEPT !.hs.symmetricstate = r.ss,
                           !.bi = @ + r.len,
                           !.out = Append(@, [len |-> r.len, val |-> r.ct])]

WriteToken(c, tok, buflen) ==
    IF c.res # "ok" THEN c
    ELSE IF tok = "E" THEN WriteE(c, buflen)
    ELSE IF tok = "S" THEN WriteS(c, buflen)
    ELSE IF IsPskToken(tok) THEN PskArm(c, PskIndex(tok))
    ELSE Dh(c, tok, WriteDhArgs(tok)[1], WriteDhArgs(tok)[2])

RECURSIVE WriteTokens(_, _, _)
WriteTokens(c, toks, buflen) ==
    IF toks = <<>> THEN c
    ELSE WriteTokens(WriteToken(c, Head(toks), buflen), Tail(toks), buflen)

PayloadTerm(plen) == Term("payload", <<Num(plen)>>)

\* split into the two cipher states (nsplit counts the calls).
DoSplit(hs) ==
    [hs EXCEPT !.cipherstates = SplitKeys(hs.symmetricstate),
               !.nsplit = @ + 1]

TooLongOffByOne(byte_index) == byte_index >= MAXMSGLEN

\* The size limit on a produced message.
TooLong(byte_index) == byte_index > MAXMSGLEN

\* Whether the popped message pattern was the last one.
WriteLast(rest) == rest = <<>>

DeadOnError(hs, res) == IF res # "ok" THEN [hs EXCEPT !.status = "dead"] ELSE hs

\* A panic leaves no usable handshake state behind; an error result does.
Dead(hs, res) == IF res = "Panic" THEN [hs EXCEPT !.status = "dead"] ELSE hs

\* Result of an operation: the new state, the result ("ok" or the error),
\* the returned length, the bytes produced, and what the call did.
Outcome(hs, res, ret, out, split, dh, stage) ==
    [hs |-> Dead(hs, res), res |-> res, ret |-> ret, out |-> out,
     split |-> split, dh |-> dh, stage |-> stage]

WriteEntryNoTurn(hs) ==
    IF hs.message_patterns = <<>> THEN "empty" ELSE "go"

\* The entry checks of write_handshake_message: which of them rejects the
\* call, or "go".
WriteEntry(hs) ==
    IF ~hs.my_turn THEN "turn"
    ELSE IF hs.message_patterns = <<>> THEN "empty"
    ELSE "go"

WriteHandshakeMessage(hs0, plen, buflen) ==
    IF WriteEntry(hs0) # "go"
    THEN Outcome(hs0, "State", 0, <<>>, FALSE, <<>>, WriteEntry(hs0))
    ELSE
    LET next_tokens == Head(hs0.message_patterns)
        hs1 == [hs0 EXCEPT !.message_patterns = Tail(@)]
        last == WriteLast(hs1.message_patterns)
        c == WriteTokens([hs |-> hs1, bi |-> 0, out |-> <<>>, res |-> "ok",
                          dh |-> <<>>], next_tokens, buflen)
    IN IF c.res # "ok"
       THEN Outcome(c.hs, c.res, c.bi, <<>>, FALSE, c.dh, "tokens")
       ELSE
       LET hs2 == [c.hs EXCEPT !.my_turn = FALSE] IN
       IF c.bi + plen + TAGLEN > buflen
       THEN Outcome(hs2, "Input", c.bi, <<>>, FALSE, c.dh, "bounds")
       ELSE
       LET r == EncryptAndMixHash(hs2.symmetricstate, PayloadTerm(plen), plen)
           hs3 == [hs2 EXCEPT !.symmetricstate = r.ss]
           byte_index == c.bi + r.len
           out == Append(c.out, [len |-> r.len, val |-> r.ct])
       IN IF TooLong(byte_index)
          THEN Outcome(hs3, "Input", byte_index, <<>>, FALSE, c.dh, "size")
          ELSE Outcome(IF last THEN DoSplit(hs3) ELSE hs3, "ok", byte_index,
                       out, last, c.dh, "done")

\* ----- read_handshake_message
\* A message is a sequence of chunks [len, val].  The bytes of a chunk taken
\* whole are its term; bytes cut across chunk boundaries are junk.
RECURSIVE SumLen(_)
SumLen(chunks) ==
    IF chunks = <<>> THEN 0 ELSE Head(chunks).len + SumLen(Tail(chunks))

RECURSIVE DropBytes(_, _)
DropBytes(chunks, n) ==
    IF n = 0 \/ chunks = <<>> THEN chunks
    ELSE IF Head(chunks).len <= n
         THEN DropBytes(Tail(chunks), n - Head(chunks).len)
         ELSE <<[len |-> Head(chunks).len - n, val |-> Junk]>> \o Tail(chunks)

\* ptr[..n]
Front(chunks, n) ==
    IF chunks # <<>> /\ Head(chunks).len = n THEN Head(chunks).val ELSE Junk

\* all of ptr: chunks of no bytes do not count, and no bytes at all are the
\* empty payload.
Whole(chunks) ==
    LET full == SelectSeq(chunks, LAMBDA c : c.len > 0) IN
    IF full = <<>> THEN PayloadTerm(0)
    ELSE IF Len(full) = 1 THEN full[1].val
    ELSE Junk

ReadENoMixHash(c) ==
    IF SumLen(c.ptr) < dh_len THEN [c EXCEPT !.res = "Panic"]
    ELSE LET re == Front(c.ptr, dh_len)
             ss1 == c.hs.symmetricstate
             ss2 == IF IsPsk(c.hs.handshake) THEN MixKey(ss1, re) ELSE ss1
         IN [c EXCEPT !.hs = [c.hs EXCEPT !.re = re, !.re_on = TRUE,
                                    !.symmetricstate = ss2],
                      !.ptr = DropBytes(c.ptr, dh_len)]

ReadE(c) ==
    IF SumLen(c.ptr) < dh_len THEN [c EXCEPT !.res = "Panic"]
    ELSE LET re == Front(c.ptr, dh_len)
             ss1 == MixHash(c.hs.symmetricstate, re)
             ss2 == IF IsPsk(c.hs.handshake) THEN MixKey(ss1, re) ELSE ss1
         IN [c EXCEPT !.hs = [c.hs EXCEPT !.re = re, !.re_on = TRUE,
                                    !.symmetricstate = ss2],
                      !.ptr = DropBytes(c.ptr, dh_len)]

ReadSNoCheck(c, shortct) ==
    LET n == IF c.hs.symmetricstate.has_key THEN dh_len + TAGLEN ELSE dh_len
    IN IF SumLen(c.ptr) < n THEN [c EXCEPT !.res = "Panic"]
       ELSE LET r == DecryptAndMixHash(c.hs.symmetricstate, Front(c.ptr, n),
                                       n, shortct)
            IN [c EXCEPT !.hs = [c.hs EXCEPT !.rs = r.pt, !.rs_on = TRUE,
                                       !.symmetricstate = r.ss],
                         !.ptr = DropBytes(c.ptr, n)]

ReadS(c, shortct) ==
    LET n == IF c.hs.symmetricstate.has_key THEN dh_len + TAGLEN ELSE dh_len
    IN IF SumLen(c.ptr) < n THEN [c EXCEPT !.res = "Panic"]
       ELSE LET r == DecryptAndMixHash(c.hs.symmetricstate, Front(c.ptr, n),
                                       n, shortct)
            IN IF r.res # "ok"
               THEN [c EXCEPT !.res = "Decrypt", !.ptr = DropBytes(c.ptr, n)]
               ELSE [c EXCEPT !.hs = [c.hs EXCEPT !.rs = r.pt, !.rs_on = TRUE,
                                          !.symmetricstate = r.ss],
                              !.ptr = DropBytes(c.ptr, n)]

ReadToken(c, tok, shortct) ==
    IF c.res # "ok" THEN c
    ELSE IF tok = "E" THEN ReadE(c)
    ELSE IF tok = "S" THEN ReadS(c, shortct)
    ELSE IF IsPskToken(tok) THEN PskArm(c, PskIndex(tok))
    ELSE Dh(c, tok, ReadDhArgs(tok)[1], ReadDhArgs(tok)[2])

RECURSIVE ReadTokens(_, _, _)
ReadTokens(c, toks, shortct) ==
    IF toks = <<>> THEN c
    ELSE ReadTokens(ReadToken(c, Head(toks), shortct), Tail(toks), shortct)

ReadLastNoSome(is_some, rest) == rest = <<>>

\* Whether the read popped the last message pattern.
ReadLast(is_some, rest) == is_some /\ rest = <<>>

ReadHandshakeMessage(hs0, message, shortct) ==
    IF message.len > MAXMSGLEN
    THEN Outcome(hs0, "Input", 0, <<>>, FALSE, <<>>, "length")
    ELSE
    LET is_some == Len(hs0.message_patterns) > 0
        next_tokens == IF is_some THEN Head(hs0.message_patterns) ELSE <<>>
        hs1 == IF is_some THEN [hs0 EXCEPT !.message_patterns = Tail(@)]
               ELSE hs0
        last == ReadLast(is_some, hs1.message_patterns)
        c == ReadTokens([hs |-> hs1, ptr |-> message.chunks, res |-> "ok",
                         dh |-> <<>>], next_tokens, shortct)
    IN IF c.res # "ok"
       THEN Outcome(c.hs, c.res, 0, <<>>, FALSE, c.dh, "tokens")
       ELSE
       LET len == SumLen(c.ptr)
           r == DecryptAndMixHash(c.hs.symmetricstate, Whole(c.ptr), len,
                                  shortct)
       IN IF r.res # "ok"
          THEN Outcome(c.hs, r.res, 0, <<>>, FALSE, c.dh, "payload")
          ELSE
          LET hs2 == [c.hs EXCEPT !.symmetricstate = r.ss, !.my_turn = TRUE]
              hs3 == IF last THEN DoSplit(hs2) ELSE hs2
              payload_len == IF hs3.symmetricstate.has_key THEN len - TAGLEN
                             ELSE len
          IN Outcome(hs3, "ok", payload_len, <<>>, last, c.dh, "done")

\* ----- finish and is_finished
IsFinishedOffByOne(hs) == Len(hs.message_patterns) <= 1

IsFinished(hs) == hs.message_patterns = <<>>

Finish(hs) ==
    IF IsFinished(hs)
    THEN [res |-> "ok", cipherstates |-> hs.cipherstates,
          handshake |-> hs.handshake]
    ELSE [res |-> "State", cipherstates |-> EmptyCipherStates,
          handshake |-> hs.handshake]

\* ------------------------------------------------------------ the system
\* Inputs the application draws from.
Choices ==
    {[pattern |-> b, modifiers |-> <<>>] :
        b \in {"N", "NN", "NK", "XX", "IK", "IX", "KK"}}
    \cup {[pattern |-> "NN", modifiers |-> <<0>>],
          [pattern |-> "XX", modifiers |-> <<3>>]}
KeyConfigs == {{}, {"s"}, {"s", "rs"}, {"s", "e", "rs", "psk"}}
PayloadLens == {0, MAXMSGLEN - 48, MAXMSGLEN - 47}
BufLens == {8, 40, MAXMSGLEN + 17}
\* The (payload length, buffer length) pairs of a write: the long payloads
\* are written into the long buffer.
WriteInputs ==
    {io \in PayloadLens \X BufLens : io[1] = 0 \/ io[2] > MAXMSGLEN}
JunkLens == {40, MAXMSGLEN + 1}
ShortCtOutcomes == {"Decrypt", "Panic"}

VARIABLES
    handshake,  \* the handshake choice both parties are built with
    hs,         \* hs[p]: the HandshakeState of party p
    wire,       \* wire[p]: the last message p wrote successfully
    last,       \* the last call and what it did
    sync,       \* whether the run so far is an in-order, unmodified exchange
    stray,      \* calls made since it stopped being one
    cfgs,       \* cfgs[p]: the key material p was built with
    okop        \* okop[p]: the kind of p's last successful write or read

vars == <<handshake, hs, wire, last, sync, stray, cfgs, okop>>

NoCall ==
    [op |-> "none", party |-> "I", res |-> "ok", ret |-> 0,
     pre_turn |-> FALSE, pre_qlen |-> 0, pre_keyed |-> FALSE, toks |-> <<>>,
     split |-> FALSE, dh |-> <<>>, stage |-> "none", plen |-> 0,
     buflen |-> 0, msglen |-> 0, honest |-> FALSE, cfg |-> {},
     pre_okop |-> "none", tamper |-> "none", base_ok |-> FALSE]

\* The record of a call on the live state h.  The output buffer of a write
\* is recorded for the calls that get past the entry checks, the payload
\* length for the calls that get past the tokens.
Call(op, p, h, r) ==
    [NoCall EXCEPT !.op = op, !.party = p, !.res = r.res, !.ret = r.ret,
                   !.pre_turn = h.my_turn,
                   !.pre_qlen = Len(h.message_patterns),
                   !.pre_keyed = h.symmetricstate.has_key,
                   !.toks = IF h.message_patterns = <<>> THEN <<>>
                            ELSE Head(h.message_patterns),
                   !.split = r.split, !.dh = r.dh, !.stage = r.stage,
                   !.pre_okop = okop[p]]

NoMsg == [seq |-> 0, len |-> 0, chunks |-> <<>>, plen |-> 0]
JunkMsg(n) == [seq |-> 0, len |-> n, chunks |-> <<[len |-> n, val |-> Junk]>>,
               plen |-> 0]

Init ==
    /\ handshake \in Choices
    /\ hs = [p \in Parties |-> [status |-> "none"]]
    /\ wire = [p \in Parties |-> NoMsg]
    /\ last = NoCall
    /\ sync = "ok"
    /\ stray = 0
    /\ cfgs = [p \in Parties |-> {}]
    /\ okop = [p \in Parties |-> "none"]

New(p) ==
    /\ hs[p].status = "none"
    /\ \E cfg \in KeyConfigs :
         LET r == HandshakeStateNew(p, Material(p, cfg), p = "I", handshake) IN
         /\ hs' = [hs EXCEPT ![p] = IF r.res = "ok" THEN r.hs
                                    ELSE [status |-> "failed"]]
         /\ last' = [NoCall EXCEPT !.op = "new", !.party = p, !.res = r.res,
                                   !.cfg = cfg]
         /\ sync' = IF r.res = "ok" THEN sync ELSE "broken"
         /\ cfgs' = [cfgs EXCEPT ![p] = cfg]
    /\ UNCHANGED <<handshake, wire, stray, okop>>

Built == \A q \in Parties : hs[q].status # "none"

\* A call that leaves the exchange out of order is counted.
Count(s) ==
    /\ s = "broken" => stray < MaxStray
    /\ stray' = IF s = "broken" THEN stray + 1 ELSE stray

\* A write rejected at entry never looks at its buffers: one pair stands for
\* all of them.
WriteInputsOf(h) ==
    IF WriteEntry(h) = "go" THEN WriteInputs
    ELSE {io \in WriteInputs : io[1] = 0 /\ io[2] > MAXMSGLEN}

\* Only an exchange in state s can take a call that will not be counted, so
\* in any other state the call needs room in the count.
MayCall(s) == sync # s => stray < MaxStray

Write(p) ==
    /\ Built
    /\ hs[p].status = "live"
    /\ MayCall("ok")
    /\ \E io \in WriteInputsOf(hs[p]) :
         LET plen == io[1]
             buflen == io[2]
             r == WriteHandshakeMessage(hs[p], plen, buflen)
         IN
         /\ r.hs.gen <= MaxGen
         /\ hs' = [hs EXCEPT ![p] = r.hs]
         /\ wire' = IF r.res = "ok"
                    THEN [wire EXCEPT ![p] = [seq |-> @.seq + 1, len |-> r.ret,
                                              chunks |-> r.out, plen |-> plen]]
                    ELSE wire
         /\ last' = IF r.stage \in {"turn", "empty"}
                    THEN Call("write", p, hs[p], r)
                    ELSE [Call("write", p, hs[p], r) EXCEPT
                            !.plen = IF r.stage = "tokens" THEN 0 ELSE plen,
                            !.buflen = buflen]
         /\ sync' = IF sync = "ok" /\ r.res = "ok" THEN "pending" ELSE "broken"
         /\ Count(sync')
         /\ okop' = IF r.res = "ok" THEN [okop EXCEPT ![p] = "write"] ELSE okop
    /\ UNCHANGED <<handshake, cfgs>>

Inbox(p) ==
    {JunkMsg(n) : n \in JunkLens}
    \cup (IF wire[Peer(p)].seq > 0 THEN {wire[Peer(p)]} ELSE {})

\* The message p's peer has just written, in order, and p has not read yet.
InTransit(p, message) ==
    /\ sync = "pending"
    /\ last.op = "write"
    /\ last.party = Peer(p)
    /\ message = wire[Peer(p)]

\* A message in transit may be altered in one of its ciphertext chunks
\* (0: unaltered).
TamperIndexes(p, message) ==
    {0} \cup (IF InTransit(p, message)
              THEN {i \in 1..Len(message.chunks) :
                        message.chunks[i].val.op = "enc"}
              ELSE {})

Tamper(message, i) ==
    IF i = 0 THEN message
    ELSE [message EXCEPT !.chunks[i].val = Term("flip", <<@>>)]

\* What the altered chunk carried: an encrypted static key, or the
\* encrypted payload (the last chunk).
TamperKind(message, i) ==
    IF i = 0 THEN "none"
    ELSE IF i = Len(message.chunks) THEN "payload"
    ELSE "static"

Read(p) ==
    /\ Built
    /\ hs[p].status = "live"
    /\ MayCall("pending")
    /\ \E base \in Inbox(p), shortct \in ShortCtOutcomes :
       \E i \in TamperIndexes(p, base) :
         LET message == Tamper(base, i)
             r == ReadHandshakeMessage(hs[p], message, shortct)
             honest == InTransit(p, base) /\ i = 0
             base_ok == /\ i > 0
                        /\ ReadHandshakeMessage(hs[p], base, shortct).res = "ok"
         IN
         /\ hs' = [hs EXCEPT ![p] = r.hs]
         /\ last' = [Call("read", p, hs[p], r) EXCEPT
                        !.msglen = message.len, !.plen = message.plen,
                        !.honest = honest, !.tamper = TamperKind(base, i),
                        !.base_ok = base_ok]
         /\ sync' = IF honest /\ r.res = "ok" THEN "ok" ELSE "broken"
         /\ Count(sync')
         /\ okop' = IF r.res = "ok" THEN [okop EXCEPT ![p] = "read"] ELSE okop
    /\ UNCHANGED <<handshake, wire, cfgs>>

FinishCall(p) ==
    /\ Built
    /\ hs[p].status = "live"
    /\ LET r == Finish(hs[p]) IN
         /\ hs' = [hs EXCEPT ![p].status = "consumed"]
         /\ last' = [NoCall EXCEPT !.op = "finish", !.party = p,
                                   !.res = r.res,
                                   !.pre_turn = hs[p].my_turn,
                                   !.pre_qlen = Len(hs[p].message_patterns)]
         /\ sync' = IF r.res = "ok" THEN sync ELSE "broken"
         /\ IF r.res = "ok" THEN stray' = stray ELSE Count("broken")
    /\ UNCHANGED <<handshake, wire, cfgs, okop>>

Next == \E p \in Parties : New(p) \/ Write(p) \/ Read(p) \/ FinishCall(p)

Spec == Init /\ [][Next]_vars

\* ------------------------------------------------------------ properties
HasState(p) == hs[p].status \in {"live", "consumed", "dead"}
Usable(p) == hs[p].status \in {"live", "consumed"}
IsOp(op) == last.op = op
Acted == hs[last.party]

\* C1: in an in-order exchange with unmodified delivery, after every
\* successful write/read pair both parties hold the same ck and h, and once
\* the last message pattern is processed both hold the same two split keys.
C1_SameKeys ==
    (sync = "ok" /\ \A p \in Parties : Usable(p)) =>
        /\ hs["I"].symmetricstate.ck = hs["R"].symmetricstate.ck
        /\ hs["I"].symmetricstate.h = hs["R"].symmetricstate.h
        /\ (\A p \in Parties : IsFinished(hs[p])) =>
             /\ hs["I"].cipherstates = hs["R"].cipherstates
             /\ hs["I"].cipherstates = SplitKeys(hs["I"].symmetricstate)

C1_Witness ==
    /\ sync = "ok"
    /\ IsOp("read") /\ last.res = "ok" /\ last.split
    /\ \A p \in Parties : Usable(p) /\ IsFinished(hs[p]) /\ hs[p].nsplit = 1
    /\ Len(last.dh) >= 2

\* C2: a read while my_turn is true fails with State, so the successful
\* operations of a handshake state alternate, starting with a write for the
\* initiator and a read for the responder.
C2_ReadOutOfTurnFails ==
    /\ (IsOp("read") /\ last.pre_turn) => last.res = "State"
    /\ (last.op \in {"write", "read"} /\ last.res = "ok") =>
         /\ last.op # last.pre_okop
         /\ last.pre_okop = "none" =>
              last.op = (IF last.party = "I" THEN "write" ELSE "read")

\* C3: a write fails with State whenever my_turn is false or the queue is
\* empty; it succeeds only with my_turn true and a message pattern left.
C3_WritePreconditions ==
    IsOp("write") =>
        /\ (~last.pre_turn \/ last.pre_qlen = 0) => last.res = "State"
        /\ last.res = "ok" => (last.pre_turn /\ last.pre_qlen > 0)

C3_Witness ==
    /\ IsOp("write") /\ ~last.pre_turn /\ last.pre_qlen > 0
    /\ last.res = "State"

\* C4: finish succeeds exactly when the message-pattern queue is empty, and
\* fails with State while a message pattern remains.
C4_FinishIffFinished ==
    IsOp("finish") =>
        /\ last.res = "ok" <=> last.pre_qlen = 0
        /\ last.pre_qlen > 0 => last.res = "State"

C4_Witness ==
    /\ IsOp("finish") /\ last.res = "ok" /\ Acted.nsplit = 1
    /\ Acted.cipherstates # EmptyCipherStates

\* C5: ES and SE pick their key pair by role, the same in write and read:
\* ES is (e, rs) for the initiator and (s, re) for the responder, SE is
\* (s, re) for the initiator and (e, rs) for the responder.  Stated for the
\* calls of an in-order exchange.
C5_DhByRole ==
    sync # "broken" =>
    \A i \in 1..Len(last.dh) :
        LET d == last.dh[i]
            pair == <<d.local_s, d.remote_s>>
            e_rs == <<FALSE, TRUE>>
            s_re == <<TRUE, FALSE>>
        IN /\ d.tok = "Dhes" =>
                pair = (IF last.party = "I" THEN e_rs ELSE s_re)
           /\ d.tok = "Dhse" =>
                pair = (IF last.party = "I" THEN s_re ELSE e_rs)

\* C6: a read on an empty message-pattern queue fails: it never returns Ok
\* and never changes my_turn.
C6_ReadOnEmptyQueueFails ==
    (IsOp("read") /\ last.pre_qlen = 0) =>
        /\ last.res # "ok"
        /\ Acted.my_turn = last.pre_turn

\* C7: split is performed exactly by the successful write or read that
\* removes the last message pattern: never while one remains, at most once,
\* and by every successful operation that empties the queue.
C7_SplitOnLastOnly ==
    /\ \A p \in Parties : HasState(p) =>
         /\ hs[p].nsplit <= 1
         /\ hs[p].nsplit = 1 => hs[p].message_patterns = <<>>
    /\ last.op \in {"write", "read"} =>
         (last.split <=> (last.res = "ok" /\ last.pre_qlen = 1))

C7_Witness ==
    /\ IsOp("read") /\ last.split /\ last.pre_qlen = 1
    /\ Acted.nsplit = 1 /\ Acted.message_patterns = <<>>

\* The bytes a message pattern puts on the wire, from the claim's rule.
RECURSIVE TokenBytes(_, _, _)
TokenBytes(toks, keyed, psk) ==
    IF toks = <<>> THEN [n |-> 0, keyed |-> keyed]
    ELSE LET t == Head(toks)
             here == IF t = "E" THEN DHLEN
                     ELSE IF t = "S"
                          THEN DHLEN + (IF keyed THEN TAGLEN ELSE 0)
                          ELSE 0
             rest == TokenBytes(Tail(toks),
                                keyed \/ (t = "E" /\ psk) \/ t \notin {"E", "S"},
                                psk)
         IN [n |-> here + rest.n, keyed |-> rest.keyed]

ExpectedLen(toks, keyed, psk, plen) ==
    LET t == TokenBytes(toks, keyed, psk) IN
    t.n + plen + (IF t.keyed THEN TAGLEN ELSE 0)

\* The slots a party's premessages need at construction.
RequiredSlots(handshake_, initiator) ==
    LET t == HandshakeTokens(handshake_)
        own == IF initiator THEN t.premsg_pattern_i ELSE t.premsg_pattern_r
        peer == IF initiator THEN t.premsg_pattern_r ELSE t.premsg_pattern_i
    IN {IF own[i] = "S" THEN "s" ELSE "e" : i \in 1..Len(own)}
       \cup {IF peer[i] = "S" THEN "rs" ELSE "re" : i \in 1..Len(peer)}

\* The static key a party needs for the messages of the pattern.
NeedsStatic(handshake_, initiator) ==
    IF initiator
    THEN handshake_.pattern \in {"K", "X", "XN", "XK", "XX", "KN", "KK", "KX",
                                 "IN", "IK", "IX"}
    ELSE handshake_.pattern \in {"N", "K", "X", "NK", "NX", "XK", "XX", "KK",
                                 "KX", "IK", "IX"}

\* Both parties were built with the keys the pattern asks of them and with
\* the same psks.
ProperKeys ==
    /\ \A p \in Parties :
         /\ RequiredSlots(handshake, p = "I") \subseteq cfgs[p]
         /\ NeedsStatic(handshake, p = "I") => "s" \in cfgs[p]
         /\ IsPsk(handshake) => "psk" \in cfgs[p]
    /\ ("psk" \in cfgs["I"]) = ("psk" \in cfgs["R"])

\* C8: a successful write returns the sum of its tokens' bytes plus the
\* payload (plus the tag when keyed), and the peer's read of exactly those
\* bytes consumes them all and returns the writer's payload length.
C8_Lengths ==
    /\ (IsOp("write") /\ last.res = "ok") =>
         last.ret = ExpectedLen(last.toks, last.pre_keyed, IsPsk(handshake),
                                last.plen)
    /\ (IsOp("read") /\ last.honest /\ ProperKeys) =>
         (last.res = "ok" /\ last.ret = last.plen)

\* C9: with a large enough output buffer a write whose message is exactly
\* 65535 bytes succeeds and one of 65536 bytes or more fails with Input; a
\* read of a message longer than 65535 bytes fails with Input.
C9_SizeLimit ==
    /\ (/\ IsOp("write") /\ last.pre_turn /\ last.pre_qlen > 0
        /\ last.res \notin {"State", "Panic"}) =>
         LET n == ExpectedLen(last.toks, last.pre_keyed, IsPsk(handshake),
                              last.plen)
         IN last.buflen >= n + TAGLEN =>
              /\ n <= 65535 => (last.res = "ok" /\ last.ret = n)
              /\ n >= 65536 => last.res = "Input"
    /\ (IsOp("read") /\ last.msglen > 65535) => last.res = "Input"

C9_Witness ==
    IsOp("write") /\ last.res = "ok" /\ last.ret = 65535

\* C10: new returns a Prereq error whenever a premessage token needs a slot
\* that is not enabled, and Ok only when every such slot is enabled.
C10_NewPrereq ==
    IsOp("new") =>
        LET missing == RequiredSlots(handshake, last.party = "I") \ last.cfg
        IN /\ missing # {} => last.res = "Prereq"
           /\ last.res = "ok" => missing = {}

\* The protocol name a handshake choice stands for:
\* Noise_<PATTERN><MODS>_<DH>_<CIPHER>_<HASH>.
ModifierNames(mods) == [i \in 1..Len(mods) |-> Atom("psk" \o ToString(mods[i]))]

FullName(handshake_) ==
    <<Atom("Noise_"), Atom(handshake_.pattern)>>
    \o ModifierNames(handshake_.modifiers)
    \o <<Atom("_"), Atom(DhName), Atom("_"), Atom(CipherName), Atom("_"),
         Atom(HashName)>>

\* C11: the protocol name new initializes the symmetric state with is
\* Noise_ + pattern + every modifier + _DH_CIPHER_HASH, so the h of a state
\* built without premessages is the hash of that name and the prologue, and
\* two choices with the same base pattern and different modifiers get
\* different names and different initial h.
C11_NameHasModifiers ==
    (IsOp("new") /\ last.res = "ok") =>
        /\ HandshakeName(handshake) = FullName(handshake)
        /\ RequiredSlots(handshake, last.party = "I") = {} =>
             Acted.symmetricstate.h =
                 MixHash(SymInitialize(FullName(handshake)), Prologue).h
        /\ \A c \in Choices :
             (c.pattern = handshake.pattern
              /\ c.modifiers # handshake.modifiers) =>
                 /\ HandshakeName(c) # HandshakeName(handshake)
                 /\ SymInitialize(HandshakeName(c)).h
                        # SymInitialize(HandshakeName(handshake)).h

\* C12: when a message in transit that the reader would accept is altered in
\* an encrypted static key or in the encrypted payload, the read fails with
\* Decrypt at the decryption of the altered bytes (the S token, or the
\* payload), does not set my_turn and does not split.
C12_TamperedFails ==
    (IsOp("read") /\ last.tamper # "none" /\ last.base_ok) =>
        /\ last.res = "Decrypt"
        /\ last.stage = (IF last.tamper = "static" THEN "tokens" ELSE "payload")
        /\ last.pre_keyed \/ last.dh # <<>> \/ IsPsk(handshake)
        /\ Acted.my_turn = last.pre_turn
        /\ ~last.pre_turn
        /\ ~last.split
        /\ Acted.nsplit = 0

C12_Witness ==
    /\ IsOp("read") /\ last.tamper = "static" /\ last.base_ok
    /\ last.res = "Decrypt" /\ ~Acted.my_turn /\ Acted.nsplit = 0
    /\ Acted.status = "live"

\* The room an S token at position i of toks needs: the bytes of the tokens
\* before it, the static key, and the tag when the state is keyed by then.
StaticNeeds(toks, i, keyed, psk) ==
    LET before == TokenBytes(SubSeq(toks, 1, i - 1), keyed, psk) IN
    before.n + DHLEN + (IF before.keyed THEN TAGLEN ELSE 0)

\* C13: a write whose buffer cannot hold an S token's static key (and its
\* tag when keyed) fails with an error result, Input when the S token is the
\* one that runs out of room; encrypt_and_mix_hash is never handed an output
\* slice shorter than what it produces (which is a panic).
C13_StaticBounds ==
    (IsOp("write") /\ last.stage \notin {"turn", "empty"}) =>
        /\ last.res # "Panic"
        /\ \A i \in 1..Len(last.toks) :
             (/\ last.toks[i] = "S"
              /\ last.buflen < StaticNeeds(last.toks, i, last.pre_keyed,
                                           IsPsk(handshake))) =>
                 last.res \in {"Input", "State"}

DhTokens == {"Dhee", "Dhes", "Dhse", "Dhss"}

\* Whether the slots a DH on (local_s, remote_s) needs are enabled in h.
SlotsOn(h, local_s, remote_s) ==
    /\ (IF local_s THEN h.s_on ELSE h.e_on)
    /\ (IF remote_s THEN h.rs_on ELSE h.re_on)

\* The first DH token of toks that the call did not compute (0: none).
FirstDhLeft(toks, done) ==
    LET left == {i \in 1..Len(toks) :
                    /\ toks[i] \in DhTokens
                    /\ Cardinality({j \in 1..i : toks[j] \in DhTokens}) > done}
    IN IF left = {} THEN 0 ELSE CHOOSE i \in left : \A j \in left : i <= j

\* C14: a DH token whose local or remote slot is not enabled makes the write
\* or read fail with State, without computing a DH and without mix_key; a
\* DH is only ever computed from enabled slots.
C14_DhNeedsSlots ==
    /\ \A p \in Parties, tok \in DhTokens, writing \in BOOLEAN :
         hs[p].status = "live" =>
           LET args == IF writing THEN WriteDhArgs(tok) ELSE ReadDhArgs(tok)
               c0 == [hs |-> hs[p], res |-> "ok", dh |-> <<>>]
               c1 == Dh(c0, tok, args[1], args[2])
           IN IF SlotsOn(hs[p], args[1], args[2])
              THEN c1.res = "ok" /\ Len(c1.dh) = 1
              ELSE c1.res = "State" /\ c1.dh = <<>> /\ c1.hs = hs[p]
    /\ (last.op \in {"write", "read"} /\ Acted.status # "dead") =>
         /\ \A i \in 1..Len(last.dh) :
              SlotsOn(Acted, last.dh[i].local_s, last.dh[i].remote_s)
         /\ LET i == FirstDhLeft(last.toks, Len(last.dh))
                args == IF i = 0 THEN <<FALSE, FALSE>>
                        ELSE IF IsOp("write") THEN WriteDhArgs(last.toks[i])
                        ELSE ReadDhArgs(last.toks[i])
            IN (i # 0 /\ ~SlotsOn(Acted, args[1], args[2])) =>
                   (last.res # "ok" /\ ~last.split)

C14_Witness ==
    /\ IsOp("read") /\ last.res = "State" /\ last.stage = "tokens"
    /\ last.honest /\ last.pre_qlen > 0
    /\ ~IsPsk(handshake)
    /\ FirstDhLeft(last.toks, Len(last.dh)) # 0
    /\ Acted.status = "live"

\* C15: when the Dh capability reports failure for a DH of a write or read
\* (the remote public key is invalid), the operation fails with a Dh error
\* and the output of the failed DH is not mixed into the symmetric state:
\* a call that succeeds, or fails otherwise, has computed only valid DHs.
C15_DhFailureIsError ==
    (last.op \in {"write", "read"}
     /\ \E i \in 1..Len(last.dh) : ~last.dh[i].valid) =>
        /\ last.res = "Dh"
        /\ \A i \in 1..Len(last.dh) : last.dh[i].valid

HasPskToken(toks) == \E i \in 1..Len(toks) : IsPskToken(toks[i])

\* C16: write and read handle a PSK(n) token the same way: with psks[n]
\* absent the operation fails with State and the symmetric state is left as
\* it was; with psks[n] present mix_key_and_hash(psks[n]) is applied once and
\* the symmetric state is keyed afterwards.
C16_PskToken ==
    /\ \A p \in Parties, n \in 0..3 :
         hs[p].status = "live" =>
           LET c0 == [hs |-> hs[p], bi |-> 0, out |-> <<>>, ptr |-> <<>>,
                      res |-> "ok", dh |-> <<>>]
               w == WriteToken(c0, PskToken(n), MAXMSGLEN)
               r == ReadToken(c0, PskToken(n), "Decrypt")
           IN /\ w = r
              /\ IF hs[p].psks[n] = NoKey
                 THEN w.res = "State" /\ w.hs = hs[p]
                 ELSE /\ w.res = "ok"
                      /\ w.hs = [hs[p] EXCEPT !.symmetricstate =
                                   MixKeyAndHash(@, hs[p].psks[n])]
                      /\ w.hs.symmetricstate.has_key
    /\ (last.op \in {"write", "read"} /\ HasPskToken(last.toks)
        /\ last.stage \notin {"turn", "length"}) =>
         /\ last.res = "ok" =>
              ("psk" \in cfgs[last.party] /\ Acted.symmetricstate.has_key)
         /\ (IsPskToken(last.toks[1]) /\ "psk" \notin cfgs[last.party]) =>
              (last.res = "State" /\ last.dh = <<>>
               /\ Acted.symmetricstate.has_key = last.pre_keyed)

C16_Witness ==
    /\ IsOp("read") /\ last.honest /\ last.res = "ok"
    /\ HasPskToken(last.toks)
    /\ ~last.pre_keyed /\ Acted.symmetricstate.has_key

\* C17: a write gives up the turn only once everything has succeeded: a
\* write that fails with Input at the payload bounds check or at the size
\* limit leaves my_turn true, and a successful write leaves it false.
C17_TurnAfterChecks ==
    IsOp("write") =>
        /\ (last.res = "Input" /\ last.stage \in {"bounds", "size"}) =>
             Acted.my_turn
        /\ last.res = "ok" => ~Acted.my_turn

\* Whether the party whose turn it is can write the next message into a
\* sufficient buffer and its peer can read what was written.
CanExchange(p) ==
    LET w == WriteHandshakeMessage(hs[p], 0, MAXMSGLEN + TAGLEN)
        message == [seq |-> 1, len |-> w.ret, chunks |-> w.out, plen |-> 0]
        r == ReadHandshakeMessage(hs[Peer(p)], message, "Decrypt")
    IN /\ w.res = "ok"
       /\ r.res = "ok"
       /\ Len(w.hs.message_patterns) = Len(hs[p].message_patterns) - 1
       /\ Len(r.hs.message_patterns) = Len(w.hs.message_patterns)

\* C18: every successful write or read removes exactly one message pattern,
\* and two parties built with the keys the pattern asks for, exchanging
\* messages in order and unmodified, always have the same number of message
\* patterns left and can always exchange the next one until none is left, so
\* the handshake completes after as many messages as the pattern has.
C18_Completes ==
    /\ (last.op \in {"write", "read"} /\ last.res = "ok") =>
         Len(Acted.message_patterns) = last.pre_qlen - 1
    /\ (sync = "ok" /\ ProperKeys /\ \A p \in Parties : hs[p].status = "live") =>
         /\ Len(hs["I"].message_patterns) = Len(hs["R"].message_patterns)
         /\ \/ \A p \in Parties : IsFinished(hs[p])
            \/ \E p \in Parties :
                 hs[p].my_turn /\ ~hs[Peer(p)].my_turn /\ CanExchange(p)

\* C19: an operation rejected at entry leaves the handshake state as it
\* was: a write with my_turn false or with no message pattern left fails
\* with State, a read of more than 65535 bytes fails with Input, and neither
\* changes my_turn, the queue, the key slots, the symmetric state or the
\* cipher states, so the state is still usable.
C19_RejectedUnchanged ==
    /\ \A p \in Parties :
         hs[p].status = "live" =>
           /\ (~hs[p].my_turn \/ hs[p].message_patterns = <<>>) =>
                \A plen \in PayloadLens, buflen \in BufLens :
                    LET w == WriteHandshakeMessage(hs[p], plen, buflen) IN
                    w.res = "State" /\ w.hs = hs[p] /\ w.out = <<>>
           /\ \A n \in {m \in JunkLens : m > 65535},
                 shortct \in ShortCtOutcomes :
                    LET r == ReadHandshakeMessage(hs[p], JunkMsg(n), shortct) IN
                    r.res = "Input" /\ r.hs = hs[p]
    /\ (last.op \in {"write", "read"}
        /\ last.stage \in {"turn", "empty", "length"}) =>
         /\ Acted.status = "live"
         /\ Acted.my_turn = last.pre_turn
         /\ Len(Acted.message_patterns) = last.pre_qlen
         /\ Acted.symmetricstate.has_key = last.pre_keyed
         /\ ~last.split /\ last.dh = <<>>

C19_Witness ==
    /\ IsOp("read") /\ last.stage = "length" /\ last.res = "Input"
    /\ Acted.status = "live" /\ last.pre_qlen > 0 /\ last.pre_keyed
    /\ Acted.symmetricstate.has_key
    /\ Len(Acted.message_patterns) = last.pre_qlen

\* C20: in every state of a handshake state, also after a write or read
\* that returned an error, is_finished implies that split was performed: the
\* cipher states finish would return are the ones split filled.
C20_FinishedImpliesSplit ==
    \A p \in Parties :
        (hs[p].status = "live" /\ IsFinished(hs[p])) =>
            /\ hs[p].nsplit >= 1
            /\ hs[p].cipherstates = SplitKeys(hs[p].symmetricstate)
            /\ Finish(hs[p]).cipherstates # EmptyCipherStates

====
